---- MODULE Spec2Model ----
(***************************************************************************)
(* EuphieRR / ArcNCiel: the run coordinator (src/main.py), the per-series  *)
(* step (_run_feed), the per-episode job (_wrapped_downloader_and_move),   *)
(* the transfer orchestrator (EuphieQbtClient.add_and_wait), the airtime   *)
(* gate (should_check) and the matcher (process_series).                   *)
(*                                                                         *)
(* Every asyncio task is a process; one action is the code a task runs     *)
(* between two awaits, together with the answer of the collaborator it     *)
(* awaited (feed host, transfer client, file system, ledger store).        *)
(***************************************************************************)
EXTENDS Integers, Sequences, FiniteSets, TLC

\* ------------------------------------------------------------------ bounds
MaxSeries      == 4   \* configured series of a run
MaxInvocations == 2   \* invocations of the program, one after the other

\* ------------------------------------------------------- program constants
DefaultSeason == 1    \* feed.get("season", 1)
MissingBudget == 5    \* if missing_failure > 5
chunk_size    == 3    \* chunk_size = 3

\* None, for each type the code uses it with: Optional[int], Optional[str],
\* Optional[TorrentDictionary], Optional[Path], no exception.
None      == -1
NoneStr   == "None"
NoneInfo  == [state |-> "None", save_path |-> "None"]
NonePath  == <<>>
NoError   == [cls |-> "None", msg |-> "None"]

Series == 1..MaxSeries

\* str(int), as far as the season keys of the ledger mapping need it.
str(n) == <<"0", "1", "2", "3", "4", "5", "6", "7", "8", "9">>[n + 1]

\* Python truthiness of an Optional[int]: None and 0 are falsy.
Truthy(v) == v # None /\ v # 0

\* `a or b`
Or_none(a, b) == IF a # None THEN a ELSE b

Or(a, b) == IF Truthy(a) THEN a ELSE b

Range(seq) == {seq[k] : k \in DOMAIN seq}

\* ---------------------------------------------------------------- state
VARIABLES
    config,          \* read_config's result: config.series, a list of SeriesSeason
    skip_start_check,\* the -ssc flag
    skip_time_check, \* the -stc flag
    now,             \* the clock readings of the invocation's should_check calls
    checked,         \* a call of should_check alone: its outcome
    feed_info,       \* a call of the matcher alone: the entries of the feed
    match_series,    \* a call of the matcher alone: its outcome
    rss,             \* what the feed host serves for each series (title captures)
    ledger,          \* the persisted ledger of each series: its contents list
    inv,             \* number of the current invocation
    rpc,             \* where run_once is
    chunk,           \* idx of the chunk run_once is executing (0: none yet)
    spc,             \* where each series' _run_feed task is
    serr,            \* the exception a _run_feed task ended with
    series_feeds,    \* _run_feed: process_series's result
    downloaded_episodes, \* _run_feed: get_downloaded_series's result
    jobs,            \* _run_feed: tasks, one _wrapped_downloader_and_move each
    arcnseries,      \* _run_feed: get_arcnciel_data's result, then appended to
    nmissing,        \* a call of add_and_wait alone: the polls, in total, that
                     \* found the job missing (history, the code does not read it)
    _GLOBAL_TASKS,   \* the tasks appended to the global list: <<s, 0>> is the task
                     \* of series s, <<s, i>> with i > 0 the task of its i-th job
    cancel_requests, \* the tasks cancel() was called on (history)
    lock_file,       \* processes of the program side by side: LOCK_FILE.exists()
    main             \* processes of the program side by side: where each is in
                     \* __main__, and what it found when it looked for the lock file

vars == <<config, skip_start_check, skip_time_check, now, checked, feed_info,
          match_series, rss, ledger, inv, rpc, chunk, spc, serr,
          series_feeds, downloaded_episodes, jobs, arcnseries, nmissing,
          _GLOBAL_TASKS, cancel_requests, lock_file, main>>

envVars == <<config, skip_start_check, skip_time_check, rss, checked, feed_info,
             match_series, nmissing, lock_file, main>>

\* ------------------------------------------------------ transfer client
SaveDirs  == {"/tmp/x"}
FileNames == {"show.mkv"}

\* TorrentStates of the client, by the two properties the code reads.
TorrentStates == {"downloading", "error", "uploading"}
is_errored_never(state) == FALSE
is_errored(state)  == state = "error"
is_complete_listed(state) == state # "error"
is_complete(state) == state = "uploading"

\* What _list_torrents(hash) returns: None, or the job's info.
TorInfos == [state : TorrentStates, save_path : SaveDirs]

\* The failures of a job, by exception class and message.
E_URL         == [cls |-> "ArcNCielInvalidTorrentURL", msg |-> "Invalid torrent url"]
E_TooMany     == [cls |-> "ArcNCielInvalidTorrentTooManyFiles", msg |-> "Too many files in torrent"]
E_Read        == [cls |-> "ArcNCielInvalidTorrentError", msg |-> "Failed to read torrent"]
E_Add         == [cls |-> "ArcNCielInvalidTorrentError", msg |-> "Failed to add torrent"]
E_Disappeared == [cls |-> "ArcNCielInvalidTorrentError", msg |-> "Torrent disappeared"]
E_Errored     == [cls |-> "ArcNCielInvalidTorrentError", msg |-> "Torrent errored"]
E_Index       == [cls |-> "IndexError", msg |-> "list index out of range"]
E_OS          == [cls |-> "OSError", msg |-> "mkdir or rename failed"]
E_Cancelled   == [cls |-> "CancelledError", msg |-> "cancelled"]

\* CancelledError derives from BaseException, everything else here from Exception.
IsException(exc) == exc.cls # "CancelledError"

\* A task of _wrapped_downloader_and_move, as created at main.py:74.
\* trail, graced, fetched, nfetch, nadd, ndelete and moved are history: what the
\* host and the client were asked, what they answered and whether the rename was
\* done; the code does not read them.
\*   fetched: the answer to the request for the descriptor (NoneStr: not asked yet)
\*   added:   the client's answer to torrents_add (NoneStr: not asked yet)
\*   trail:  the number of polls, up to the latest, that found the job not listed
\*   graced: the poll that found the job complete came right after exactly
\*           MissingBudget polls that found it not listed
NewJob(torrent) ==
    [torrent          |-> torrent,
     pc               |-> "download_torrent",
     missing_failure  |-> 0,
     tor_info         |-> NoneInfo,
     tor_file         |-> NoneStr,
     temporary_dl_dir |-> NonePath,
     result           |-> [svpath |-> NonePath, res |-> FALSE],
     error            |-> NoError,
     trail            |-> 0,
     graced           |-> FALSE,
     fetched          |-> NoneStr,
     nfetch           |-> 0,
     added            |-> NoneStr,
     nadd             |-> 0,
     ndelete          |-> 0,
     moved            |-> FALSE]

\* Path(a) / b
PathJoin(a, b) == <<a, b>>

_wrapped_except_typed(job, exc) ==
    IF exc.cls \in {"ArcNCielInvalidTorrentError", "ArcNCielInvalidTorrentURL",
                    "ArcNCielInvalidTorrentTooManyFiles"}
    THEN [job EXCEPT !.pc = "returned", !.error = exc,
                     !.result = [svpath |-> NonePath, res |-> FALSE]]
    ELSE [job EXCEPT !.pc = "raised", !.error = exc]

\* _wrapped_downloader_and_move's two handlers: `except ArcNCielInvalidTorrentError`
\* and `except Exception` both return (torrent, None, False); what is no Exception
\* leaves the task with that exception.
_wrapped_except(job, exc) ==
    IF IsException(exc)
    THEN [job EXCEPT !.pc = "returned", !.error = exc,
                     !.result = [svpath |-> NonePath, res |-> FALSE]]
    ELSE [job EXCEPT !.pc = "raised", !.error = exc]

SetJob(s, i, job) == jobs' = [jobs EXCEPT ![s][i] = job]

JobAt(s, i, pc) == i \in DOMAIN jobs[s] /\ jobs[s][i].pc = pc

JobFrame == UNCHANGED <<envVars, now, ledger, inv, rpc, chunk, spc, serr, series_feeds,
                        downloaded_episodes, arcnseries, _GLOBAL_TASKS, cancel_requests>>

\* ------------------------------------------------- EuphieClient.download_torrent
FetchResponses == {"ok", "status", "unparsable", "too_many_files"}

\* The exception download_torrent raises for a response that is not "ok". The
\* too-many-files exception is raised inside the try block whose `except Exception`
\* replaces whatever was raised there.
download_torrent_raises(resp) ==
    IF resp = "status" THEN E_URL
    ELSE LET raised == IF resp = "too_many_files" THEN E_TooMany
                       ELSE [cls |-> "BdecodeError", msg |-> "Invalid metainfo"]
         IN  IF IsException(raised) THEN E_Read ELSE raised

download_torrent(s, i, resp) ==
    /\ JobAt(s, i, "download_torrent")
    /\ LET job == [jobs[s][i] EXCEPT !.fetched = resp, !.nfetch = @ + 1] IN
         IF resp = "ok"
         THEN SetJob(s, i, [job EXCEPT !.pc = "_add_torrent"])
         ELSE SetJob(s, i, _wrapped_except(job, download_torrent_raises(resp)))
    /\ JobFrame

\* ------------------------------------------------- EuphieQbtClient._add_torrent
\* torrents_add answers "Ok." or "Fails.", or raises UnsupportedMediaType415Error.
AddResponses == {"Ok.", "Fails.", "415"}

_add_torrent_result_any(executed) == TRUE

\* "ok" in executed.lower()
_add_torrent_result(executed) == executed = "Ok."

_add_torrent(s, i, resp) ==
    /\ JobAt(s, i, "_add_torrent")
    /\ LET job == [jobs[s][i] EXCEPT !.added = resp, !.nadd = @ + 1] IN
         IF resp = "415"
         THEN SetJob(s, i, _wrapped_except(job, E_URL))
         ELSE IF ~_add_torrent_result(resp)
         THEN SetJob(s, i, _wrapped_except(job, E_Add))
         ELSE SetJob(s, i, [job EXCEPT !.pc = "_list_torrents", !.missing_failure = 0])
    /\ JobFrame

\* ------------------------------------- EuphieQbtClient.add_and_wait, the loop
MissingExceeded_early(missing_failure) == missing_failure >= MissingBudget

\* missing_failure > 5
MissingExceeded(missing_failure) == missing_failure > MissingBudget

\* missing_failure = 0, after a poll that found the job listed
listed_missing_failure_kept(missing_failure) == missing_failure

listed_missing_failure(missing_failure) == 0

\* One turn of `while not is_downloaded`: sleep, _list_torrents, and the code up to
\* the next await. tor_info is None when the client does not list the job.
poll(s, i, tor_info) ==
    /\ JobAt(s, i, "_list_torrents")
    /\ LET job == jobs[s][i] IN
         IF tor_info = NoneInfo
         THEN LET missing == job.missing_failure + 1
                  seen == [job EXCEPT !.missing_failure = missing, !.tor_info = NoneInfo,
                                      !.trail = @ + 1]
              IN  IF MissingExceeded(missing)
                  THEN SetJob(s, i, _wrapped_except(seen, E_Disappeared))
                  ELSE SetJob(s, i, seen)
         ELSE LET seen == [job EXCEPT
                              !.missing_failure = listed_missing_failure(@),
                              !.tor_info = tor_info, !.trail = 0]
              IN  IF is_errored(tor_info.state)
                  THEN SetJob(s, i, _wrapped_except(seen, E_Errored))
                  ELSE IF is_complete(tor_info.state)
                  THEN SetJob(s, i, [seen EXCEPT !.pc = "torrents_files",
                                                 !.graced = (job.trail = MissingBudget)])
                  ELSE SetJob(s, i, seen)

_list_torrents(s, i, tor_info) == poll(s, i, tor_info) /\ JobFrame

\* tor_files = torrents_files(tor_hash); tor_files[0]["name"]; the path is built
\* before the delete call is awaited. An empty file list is an IndexError.
torrents_files(s, i, tor_files) ==
    /\ JobAt(s, i, "torrents_files")
    /\ LET job == jobs[s][i] IN
         IF tor_files = <<>>
         THEN SetJob(s, i, _wrapped_except(job, E_Index))
         ELSE LET tor_file == tor_files[1] IN
              SetJob(s, i, [job EXCEPT
                  !.pc = "torrents_delete",
                  !.tor_file = tor_file,
                  !.temporary_dl_dir = PathJoin(job.tor_info.save_path, tor_file)])
    /\ JobFrame

\* torrents_delete(torrent_hashes=tor_hash); break; return torrent, temporary_dl_dir;
\* then _wrapped_downloader_and_move up to `await target_save.parent.mkdir`.
torrents_delete(s, i) ==
    /\ JobAt(s, i, "torrents_delete")
    /\ SetJob(s, i, [jobs[s][i] EXCEPT !.pc = "mkdir", !.ndelete = @ + 1])
    /\ JobFrame

\* ------------------------------------------ _wrapped_downloader_and_move, handoff
mkdir(s, i, ok) ==
    /\ JobAt(s, i, "mkdir")
    /\ IF ok
       THEN SetJob(s, i, [jobs[s][i] EXCEPT !.pc = "rename"])
       ELSE SetJob(s, i, _wrapped_except(jobs[s][i], E_OS))
    /\ JobFrame

\* source_save.rename(target_save); return torrent, source_save, True
rename(s, i, ok) ==
    /\ JobAt(s, i, "rename")
    /\ LET job == jobs[s][i] IN
         IF ok
         THEN SetJob(s, i, [job EXCEPT !.pc = "returned", !.moved = TRUE,
                                       !.result = [svpath |-> job.temporary_dl_dir, res |-> TRUE]])
         ELSE SetJob(s, i, _wrapped_except(job, E_OS))
    /\ JobFrame

\* ------------------------------------------------------------ process_series
FeedResponses == {"ok", "ArcNCielFeedMissing", "ArcNCielFeedInvalid"}

\* What the matcher keeps of an entry whose title captured `episode` and, when the
\* pattern has the group, `season`: season = captured season, else str(series.season).
matched(entry, series) ==
    [season  |-> IF entry.season = None THEN series.season ELSE entry.season,
     episode |-> entry.episode]

\* A title, a matcher and an ignore matcher are strings: sequences of characters.
Chars == {"S", "E", "x", "X", "1", "2"}

Digits == {"1", "2"}

\* str.casefold(), character by character
casefold_char(c) == IF c = "S" THEN "s" ELSE IF c = "E" THEN "e"
                    ELSE IF c = "X" THEN "x" ELSE c

casefold(string) == [k \in DOMAIN string |-> casefold_char(string[k])]

\* `needle in string`
contains(string, needle) ==
    \E k \in 0..(Len(string) - Len(needle)) :
        \A n \in DOMAIN needle : string[k + n] = needle[n]

\* int(text) of a one-character capture; None stands for the ValueError
int(c) == IF c = "1" THEN 1 ELSE IF c = "2" THEN 2 ELSE None

\* series.episode_regex, one of
\*   "episode":        E(?P<episode>\d)
\*   "season_episode": S(?P<season>\d)E(?P<episode>\d)
\*   "episode_word":   E(?P<episode>\w)
\* matches_at: the pattern matches the title from position k on.
matches_at(pattern, title, k) ==
    IF pattern = "episode"
    THEN k + 1 <= Len(title) /\ title[k] = "E" /\ title[k + 1] \in Digits
    ELSE IF pattern = "season_episode"
    THEN /\ k + 3 <= Len(title)
         /\ title[k] = "S" /\ title[k + 1] \in Digits
         /\ title[k + 2] = "E" /\ title[k + 3] \in Digits
    ELSE k + 1 <= Len(title) /\ title[k] = "E"

\* series.episode_regex.search(entry_title) is not None
search(pattern, title) == \E k \in DOMAIN title : matches_at(pattern, title, k)

\* title_match.groupdict() of the leftmost match: the captured texts
groupdict(pattern, title) ==
    LET k == CHOOSE k \in DOMAIN title :
                 /\ matches_at(pattern, title, k)
                 /\ \A j \in 1..(k - 1) : ~matches_at(pattern, title, j)
    IN  IF pattern = "season_episode"
        THEN [season |-> title[k + 1], episode |-> title[k + 3]]
        ELSE [season |-> NoneStr, episode |-> title[k + 1]]

ignore_success_cased(title, series) ==
    \E n \in DOMAIN series.ignore_matches : contains(title, series.ignore_matches[n])

\* an ignore matcher is in the title (case-insensitive)
ignore_success(title, series) ==
    \E n \in DOMAIN series.ignore_matches :
        contains(casefold(title), casefold(series.ignore_matches[n]))

\* a matcher is not in the title (case-insensitive)
matching_fail(title, series) ==
    \E n \in DOMAIN series.matches :
        ~contains(casefold(title), casefold(series.matches[n]))

\* int(matcherino.get("episode")) or int(season) raises ValueError
int_raises(title, series) ==
    LET matcherino == groupdict(series.episode_regex, title)
    IN  \/ int(matcherino.episode) = None
        \/ matcherino.season # NoneStr /\ int(matcherino.season) = None

\* One iteration of the loop of process_series over feed_info.entries:
\* "continue" (no candidate), "ValueError", or "append" (a candidate).
entry_outcome(title, series) ==
    IF ~search(series.episode_regex, title) THEN "continue"
    ELSE IF ignore_success(title, series) THEN "continue"
    ELSE IF matching_fail(title, series) THEN "continue"
    ELSE IF int_raises(title, series) THEN "ValueError"
    ELSE "append"

\* The ArcNCielTorrent of an entry whose iteration appends one.
tor_info_of(title, series) ==
    LET matcherino == groupdict(series.episode_regex, title)
    IN  matched([season  |-> IF matcherino.season = NoneStr THEN None
                             ELSE int(matcherino.season),
                 episode |-> int(matcherino.episode)], series)

\* ------------------------------------------------------------------ rule ids
\* An id is a sequence of characters. re.sub(r"[^a-zA-Z0-9_-]", "_", orig_id)
SafeIdChars == {"a", "b", "0", "_", "-"}

_safe_clean_id(orig_id) ==
    [k \in DOMAIN orig_id |-> IF orig_id[k] \in SafeIdChars THEN orig_id[k] ELSE "_"]

\* str(uuid.uuid4()), for the rule at position s: no two generated ids are equal.
uuid4(s) == [k \in 1..s |-> "0"]

\* The id of a rule: the cleaned id of the config file (the field `id` of the rule,
\* present when the file gives one), or a generated one.
feed_id(s) == IF "id" \in DOMAIN config[s] THEN config[s].id ELSE uuid4(s)

\* ------------------------------------------------------------- ledger store
\* The ledger file of a series is named by the series' id: it is the ledger of the
\* first rule that has this id.
ledger_file(s) ==
    CHOOSE k \in DOMAIN config :
        /\ feed_id(k) = feed_id(s)
        /\ \A m \in DOMAIN config : feed_id(m) = feed_id(s) => k <= m

\* ArcNCielTorrent.to_data_content: the ledger entry of an acquired episode.
to_data_content(tor) == [season |-> tor.season, episode |-> tor.episode]

\* get_downloaded_series: the mapping str(season) -> episodes of a ledger's contents.
get_downloaded_series(contents) ==
    [key \in {str(c.season) : c \in Range(contents)} |->
        {c.episode : c \in {d \in Range(contents) : str(d.season) = key}}]

\* downloaded_episodes.get(key, [])
dict_get(d, key) == IF key \in DOMAIN d THEN d[key] ELSE {}

\* ------------------------------------------------------------------ _run_feed
\* feed.episode not in downloaded_episodes.get(str(feed.season or series.season), [])
not_downloaded(feed, series, downloaded) ==
    feed.episode \notin dict_get(downloaded, str(Or(feed.season, series.season)))

start_check_strict(feed, series, skip) == ~skip /\ feed.episode > series.start_from

\* not skip_start_check and feed.episode >= series.start_from
start_check(feed, series, skip) == ~skip /\ feed.episode >= series.start_from

\* to_be_downloaded, after both list comprehensions
to_be_downloaded(feeds, series, downloaded, skip) ==
    SelectSeq(SelectSeq(feeds, LAMBDA feed : not_downloaded(feed, series, downloaded)),
              LAMBDA feed : start_check(feed, series, skip))

SeriesFrame == UNCHANGED <<envVars, now, inv, rpc, chunk, cancel_requests>>

job_tasks_none(s, todo) == {}

\* _GLOBAL_TASKS.append(task), for each task of to_be_downloaded
job_tasks(s, todo) == {<<s, k>> : k \in DOMAIN todo}

\* await process_series(series), up to `await get_downloaded_series(series)`
process_series(s, resp) ==
    /\ spc[s] = "process_series"
    /\ IF resp = "ok"
       THEN /\ series_feeds' = [series_feeds EXCEPT
                   ![s] = [k \in DOMAIN rss[s] |-> matched(rss[s][k], config[s])]]
            /\ spc' = [spc EXCEPT ![s] = "get_downloaded_series"]
            /\ UNCHANGED serr
       ELSE /\ spc' = [spc EXCEPT ![s] = "raised"]
            /\ serr' = [serr EXCEPT ![s] = resp]
            /\ UNCHANGED series_feeds
    /\ UNCHANGED <<ledger, downloaded_episodes, jobs, arcnseries, _GLOBAL_TASKS>>
    /\ SeriesFrame

\* await get_downloaded_series(series), the two filters, the early return or the
\* creation of the tasks, up to `await asyncio.gather(*tasks)`
run_feed_schedule(s, ok) ==
    /\ spc[s] = "get_downloaded_series"
    /\ IF ~ok
       THEN /\ spc' = [spc EXCEPT ![s] = "raised"]
            /\ serr' = [serr EXCEPT ![s] = "LedgerLoadError"]
            /\ UNCHANGED <<downloaded_episodes, jobs, _GLOBAL_TASKS>>
       ELSE LET downloaded == get_downloaded_series(ledger[ledger_file(s)])
                todo == to_be_downloaded(series_feeds[s], config[s], downloaded,
                                         skip_start_check)
            IN  /\ downloaded_episodes' = [downloaded_episodes EXCEPT ![s] = downloaded]
                /\ jobs' = [jobs EXCEPT ![s] = [k \in DOMAIN todo |-> NewJob(todo[k])]]
                /\ _GLOBAL_TASKS' = _GLOBAL_TASKS \cup job_tasks(s, todo)
                /\ spc' = [spc EXCEPT ![s] = IF todo = <<>> THEN "returned" ELSE "gather"]
                /\ UNCHANGED serr
    /\ UNCHANGED <<ledger, series_feeds, arcnseries>>
    /\ SeriesFrame

AnyJobDone(s) == \E i \in DOMAIN jobs[s] : jobs[s][i].pc \in {"returned", "raised"}

AllJobsDone(s) == \A i \in DOMAIN jobs[s] : jobs[s][i].pc \in {"returned", "raised"}

\* asyncio.gather(*tasks) in _run_feed: the results once every task has returned;
\* the first exception of a task as soon as there is one.
run_feed_gather(s) ==
    /\ spc[s] = "gather"
    /\ IF \E i \in DOMAIN jobs[s] : jobs[s][i].pc = "raised"
       THEN /\ spc' = [spc EXCEPT ![s] = "raised"]
            /\ serr' = [serr EXCEPT ![s] =
                   jobs[s][CHOOSE i \in DOMAIN jobs[s] : jobs[s][i].pc = "raised"].error.cls]
       ELSE /\ AllJobsDone(s)
            /\ spc' = [spc EXCEPT ![s] = "get_arcnciel_data"]
            /\ UNCHANGED serr
    /\ UNCHANGED <<ledger, series_feeds, downloaded_episodes, jobs, arcnseries,
                   _GLOBAL_TASKS>>
    /\ SeriesFrame

result_downloaded(r) == is_complete(r.tor_info.state)

\* if res and svpath is not None
result_ok(r) == r.result.res /\ r.result.svpath # NonePath

RECURSIVE append_results(_, _)
\* for tor, svpath, res in results: if ...: arcnseries.contents.append(..)
append_results(contents, results) ==
    IF results = <<>> THEN contents
    ELSE LET r == Head(results)
             next == IF result_ok(r)
                     THEN Append(contents, to_data_content(r.torrent))
                     ELSE contents
         IN  append_results(next, Tail(results))

\* await get_arcnciel_data(series), the loop over results, up to the save
get_arcnciel_data(s, ok) ==
    /\ spc[s] = "get_arcnciel_data"
    /\ IF ~ok
       THEN /\ spc' = [spc EXCEPT ![s] = "raised"]
            /\ serr' = [serr EXCEPT ![s] = "LedgerLoadError"]
            /\ UNCHANGED arcnseries
       ELSE /\ arcnseries' = [arcnseries EXCEPT
                   ![s] = append_results(ledger[ledger_file(s)], jobs[s])]
            /\ spc' = [spc EXCEPT ![s] = "save_arcnciel_data"]
            /\ UNCHANGED serr
    /\ UNCHANGED <<ledger, series_feeds, downloaded_episodes, jobs, _GLOBAL_TASKS>>
    /\ SeriesFrame

\* await save_arcnciel_data(arcnseries); _run_feed returns
save_arcnciel_data(s) ==
    /\ spc[s] = "save_arcnciel_data"
    /\ ledger' = [ledger EXCEPT ![ledger_file(s)] = arcnseries[s]]
    /\ spc' = [spc EXCEPT ![s] = "returned"]
    /\ UNCHANGED <<serr, series_feeds, downloaded_episodes, jobs, arcnseries,
                   _GLOBAL_TASKS>>
    /\ SeriesFrame

\* ------------------------------------------------------------- airtime gate
\* An instant is a number of seconds since 1970-01-01 00:00:00 on the wall clock of
\* the rule's effective timezone; a date is a number of days since 1970-01-01.
DaySeconds    == 86400
MinuteSeconds == 60
WeekDays      == 7

date_of(t) == t \div DaySeconds

\* datetime.weekday(): Monday is 0; 1970-01-01 was a Thursday.
weekday(day) == (day + 3) % 7

\* year, month, day of a date (proleptic Gregorian calendar)
civil_from_days(z) ==
    LET zz   == z + 719468
        era  == zz \div 146097
        doe  == zz - era * 146097
        yoe  == (doe - doe \div 1460 + doe \div 36524 - doe \div 146096) \div 365
        doy  == doe - (365 * yoe + yoe \div 4 - yoe \div 100)
        mp   == (5 * doy + 2) \div 153
        d    == doy - (153 * mp + 2) \div 5 + 1
        m    == IF mp < 10 THEN mp + 3 ELSE mp - 9
    IN  [year |-> yoe + era * 400 + (IF m <= 2 THEN 1 ELSE 0), month |-> m, day |-> d]

\* the date of year, month, day
days_from_civil(year, m, d) ==
    LET y   == IF m <= 2 THEN year - 1 ELSE year
        era == y \div 400
        yoe == y - era * 400
        doy == (153 * (IF m > 2 THEN m - 3 ELSE m + 9) + 2) \div 5 + d - 1
        doe == yoe * 365 + yoe \div 4 - yoe \div 100 + doy
    IN  era * 146097 + doe - 719468

is_leap(y) == (y % 4 = 0 /\ y % 100 # 0) \/ y % 400 = 0

days_in_month(y, m) ==
    IF m = 2 THEN (IF is_leap(y) THEN 29 ELSE 28)
    ELSE IF m \in {4, 6, 9, 11} THEN 30 ELSE 31

\* series.airtime: None, a date, or a datetime (date and time of day, in seconds)
NoAirtime == [kind |-> "None", day |-> 0, tod |-> 0]

get_day_difference_signed(week_air, week_ctime) == week_air - week_ctime

\* (week_air - week_ctime + 7) % 7
get_day_difference(week_air, week_ctime) == (week_air - week_ctime + 7) % 7

\* The day current_time is on after the `if time_diff > 0 / elif time_diff < 0`.
projected_day(series, t_first) ==
    LET time_diff == get_day_difference(weekday(series.airtime.day),
                                        weekday(date_of(t_first)))
    IN  IF time_diff > 0 THEN date_of(t_first) + time_diff
        ELSE IF time_diff < 0 THEN date_of(t_first) - time_diff
        ELSE date_of(t_first)

\* pendulum.datetime(year=series.airtime.year, month=current_time.month,
\* day=current_time.day, ...) raises ValueError when the year has no such day.
should_check_raises(series, t_first) ==
    /\ series.airtime # NoAirtime
    /\ LET cur  == civil_from_days(projected_day(series, t_first))
           year == civil_from_days(series.airtime.day).year
       IN  cur.day > days_in_month(year, cur.month)

\* The instant `airtime` of should_check.
airtime_of(series, t_first) ==
    LET cur  == civil_from_days(projected_day(series, t_first))
        year == civil_from_days(series.airtime.day).year
    IN  days_from_civil(year, cur.month, cur.day) * DaySeconds
          + (IF series.airtime.kind = "datetime" THEN series.airtime.tod ELSE 0)

should_check_dated(series, t_first, t_last) == series.airtime # NoAirtime

\* should_check(series), for a call whose first reading of the clock (the one the
\* weekday is taken from) is t_first and whose last (the one compared with the
\* window) is t_last; defined when should_check_raises is false.
should_check(series, t_first, t_last) ==
    IF series.airtime = NoAirtime THEN TRUE
    ELSE LET airtime     == airtime_of(series, t_first)
             diff_back   == airtime - series.grace_period * MinuteSeconds
             diff_future == airtime + series.grace_period * MinuteSeconds
             graceful_future == diff_back <= t_last /\ t_last <= diff_future
         IN  IF ~graceful_future
             THEN /\ diff_back - WeekDays * DaySeconds <= t_last
                  /\ t_last <= diff_future - WeekDays * DaySeconds
             ELSE TRUE

\* ------------------------------------------------------------------- run_once
\* configure_series: the series run_once selected, in config order
\* (`if not skip_time_check and not should_check(series): continue`)
configure_series_all == [k \in DOMAIN config |-> k]

configure_series ==
    SelectSeq([k \in DOMAIN config |-> k], LAMBDA s :
        skip_time_check \/ should_check(config[s], now.first, now.last))

\* chunk_series[idx]: configure_series[i : i + chunk_size], i = (idx - 1) * chunk_size
chunk_of_wide(idx) ==
    {configure_series[k] : k \in {n \in DOMAIN configure_series : n <= idx * chunk_size}}

chunk_of(idx) ==
    {configure_series[k] : k \in {n \in DOMAIN configure_series :
        (idx - 1) * chunk_size < n /\ n <= idx * chunk_size}}

chunk_count == (Len(configure_series) + chunk_size - 1) \div chunk_size

\* The tasks of a chunk are created together; none runs before run_once awaits.
\* Each is appended to _GLOBAL_TASKS as it is created.
create_series_tasks(idx) ==
    /\ spc' = [s \in Series |-> IF s \in chunk_of(idx) THEN "process_series" ELSE spc[s]]
    /\ _GLOBAL_TASKS' = _GLOBAL_TASKS \cup {<<s, 0>> : s \in chunk_of(idx)}

RunFrame == UNCHANGED <<envVars, now, ledger, inv, serr, series_feeds, downloaded_episodes,
                        jobs, arcnseries, cancel_requests>>

\* run_once from its start to the first `await asyncio.gather(*tasks)`
run_once_start ==
    /\ rpc = "start"
    /\ IF ~skip_time_check
          /\ \E s \in DOMAIN config : should_check_raises(config[s], now.first)
       THEN rpc' = "raised" /\ UNCHANGED <<chunk, spc, _GLOBAL_TASKS>>
       ELSE IF configure_series = <<>>
            THEN rpc' = "returned" /\ UNCHANGED <<chunk, spc, _GLOBAL_TASKS>>
            ELSE rpc' = "gather" /\ chunk' = 1 /\ create_series_tasks(1)
    /\ RunFrame

\* asyncio.gather(*tasks) of a chunk has every result: every task has returned.
ChunkAnyReturned(idx) == \E s \in chunk_of(idx) : spc[s] = "returned"

ChunkReturned(idx) == \A s \in chunk_of(idx) : spc[s] = "returned"

\* asyncio.gather(*tasks) in run_once returns: the next chunk, or "Run complete"
run_once_gather ==
    /\ rpc = "gather"
    /\ ChunkReturned(chunk)
    /\ IF chunk < chunk_count
       THEN rpc' = "gather" /\ chunk' = chunk + 1 /\ create_series_tasks(chunk + 1)
       ELSE rpc' = "returned" /\ UNCHANGED <<chunk, spc, _GLOBAL_TASKS>>
    /\ RunFrame

\* asyncio.gather(*tasks) in run_once raises the exception of a series task;
\* run_once ends with it and asyncio.run cancels every task that is not done.
cancel_job(job) ==
    IF job.pc \in {"returned", "raised"} THEN job
    ELSE [job EXCEPT !.pc = "raised", !.error = E_Cancelled]

\* The tasks of the loop that are not done: asyncio.run calls cancel() on each
\* of them and runs the loop until they have ended.
not_done ==
    {<<s, 0>> : s \in {u \in Series : spc[u] \notin {"idle", "returned", "raised"}}}
    \cup UNION {{<<s, i>> : i \in {k \in DOMAIN jobs[s] :
                                      jobs[s][k].pc \notin {"returned", "raised"}}} :
                s \in Series}

_cancel_all_tasks ==
    /\ spc' = [s \in Series |->
                 IF spc[s] \in {"idle", "returned", "raised"} THEN spc[s] ELSE "cancelled"]
    /\ jobs' = [s \in Series |-> [i \in DOMAIN jobs[s] |-> cancel_job(jobs[s][i])]]
    /\ cancel_requests' = cancel_requests \cup not_done
    /\ UNCHANGED <<envVars, now, ledger, inv, chunk, serr, series_feeds, downloaded_episodes,
                   arcnseries, _GLOBAL_TASKS>>

run_once_raise ==
    /\ rpc = "gather"
    /\ \E s \in chunk_of(chunk) : spc[s] = "raised"
    /\ rpc' = "raised"
    /\ _cancel_all_tasks

\* KeyboardInterrupt or SystemExit while asyncio.run is running run_once
interrupt ==
    /\ rpc \in {"start", "gather"}
    /\ rpc' = "interrupted"
    /\ _cancel_all_tasks

\* __main__'s two handlers: `for task in _GLOBAL_TASKS: task.cancel(...)`
main_except ==
    /\ rpc \in {"raised", "interrupted"}
    /\ rpc' = "exited"
    /\ cancel_requests' = cancel_requests \cup _GLOBAL_TASKS
    /\ UNCHANGED <<envVars, now, ledger, inv, chunk, spc, serr, series_feeds,
                   downloaded_episodes, jobs, arcnseries, _GLOBAL_TASKS>>

\* The scheduler starts the program again, a day later: nothing but the ledger
\* files is kept.
Period == DaySeconds

Fresh ==
    /\ rpc = "start"
    /\ chunk = 0
    /\ spc = [s \in Series |-> "idle"]
    /\ serr = [s \in Series |-> NoneStr]
    /\ series_feeds = [s \in Series |-> <<>>]
    /\ downloaded_episodes = [s \in Series |-> <<>>]
    /\ jobs = [s \in Series |-> <<>>]
    /\ arcnseries = [s \in Series |-> <<>>]
    /\ _GLOBAL_TASKS = {}
    /\ cancel_requests = {}

next_invocation ==
    /\ rpc \in {"returned", "raised"}
    /\ inv < MaxInvocations
    /\ inv' = inv + 1
    /\ rpc' = "start"
    /\ chunk' = 0
    /\ spc' = [s \in Series |-> "idle"]
    /\ serr' = [s \in Series |-> NoneStr]
    /\ series_feeds' = [s \in Series |-> <<>>]
    /\ downloaded_episodes' = [s \in Series |-> <<>>]
    /\ jobs' = [s \in Series |-> <<>>]
    /\ arcnseries' = [s \in Series |-> <<>>]
    /\ _GLOBAL_TASKS' = {}
    /\ cancel_requests' = {}
    /\ now' = [first |-> now.first + Period, last |-> now.last + Period]
    /\ UNCHANGED <<envVars, ledger>>

\* ------------------------------------------------------------- specification
CapturedSeasons == {None, 0, 2}
Episodes == {1, 2}
Entries == [season : CapturedSeasons, episode : Episodes]
FeedLengths == 0..2
Feeds == UNION {[1..n -> Entries] : n \in FeedLengths}
DefaultGrace == 120   \* feed.get("gracePeriod", feed.get("grace_period", 120))

\* A rule with no airtime, by its minimum episode.
SeriesSeason(start_from) ==
    [season |-> DefaultSeason, start_from |-> start_from,
     airtime |-> NoAirtime, grace_period |-> DefaultGrace,
     episode_regex |-> "episode", matches |-> <<>>, ignore_matches |-> <<>>]

SeriesSeasons == {SeriesSeason(e) : e \in Episodes}

\* Monday 2024-02-26 00:00:00, the instant of the first invocation.
StartOfRun == 19779 * DaySeconds

\* No separate call of should_check or of the matcher is under way.
NoMatch == [idx |-> 0, out |-> <<>>, last |-> NoneStr]

\* One process of the program, past its lock file lines.
NoLock == lock_file = TRUE /\ main = <<>>

NoCall ==
    /\ checked = NoneStr /\ feed_info = <<>> /\ match_series = NoMatch /\ nmissing = 0
    /\ NoLock

\* A run at StartOfRun without the -stc flag.
PlainRun ==
    /\ skip_time_check = FALSE
    /\ now = [first |-> StartOfRun, last |-> StartOfRun]
    /\ NoCall

ClientStep(s, i) ==
    \/ \E resp \in FetchResponses : download_torrent(s, i, resp)
    \/ \E resp \in AddResponses : _add_torrent(s, i, resp)
    \/ \E tor_files \in {<<>>} \cup {<<f>> : f \in FileNames} : torrents_files(s, i, tor_files)
    \/ torrents_delete(s, i)
    \/ \E ok \in BOOLEAN : mkdir(s, i, ok)
    \/ \E ok \in BOOLEAN : rename(s, i, ok)

JobStep(s, i) ==
    \/ ClientStep(s, i)
    \/ \E tor_info \in TorInfos \cup {NoneInfo} : _list_torrents(s, i, tor_info)

SeriesStep(s) ==
    \/ \E resp \in FeedResponses : process_series(s, resp)
    \/ \E ok \in BOOLEAN : run_feed_schedule(s, ok)
    \/ run_feed_gather(s)
    \/ \E ok \in BOOLEAN : get_arcnciel_data(s, ok)
    \/ save_arcnciel_data(s)

Next ==
    \/ run_once_start
    \/ run_once_gather
    \/ run_once_raise
    \/ next_invocation
    \/ \E s \in Series : SeriesStep(s)
    \/ \E s \in Series : \E i \in DOMAIN jobs[s] : JobStep(s, i)

\* One configured series; the feed host serves any feed of at most two
\* matching entries; no ledger file exists before the first invocation.
Init ==
    /\ config \in [1..1 -> SeriesSeasons]
    /\ skip_start_check \in BOOLEAN
    /\ PlainRun
    /\ \E feed \in Feeds : rss = [s \in Series |-> IF s = 1 THEN feed ELSE <<>>]
    /\ ledger = [s \in Series |-> <<>>]
    /\ inv = 1
    /\ Fresh

Spec == Init /\ [][Next]_vars

\* One or two configured series, both in the first chunk, each with a feed of at
\* most one entry.
RunSizes == {1, 2}

InitRun ==
    /\ \E n \in RunSizes : config = [s \in 1..n |-> SeriesSeason(1)]
    /\ skip_start_check = FALSE
    /\ PlainRun
    /\ rss \in [Series -> {<<>>, <<[season |-> None, episode |-> 1]>>}]
    /\ \A s \in Series : s > Len(config) => rss[s] = <<>>
    /\ ledger = [s \in Series |-> <<>>]
    /\ inv = 1
    /\ Fresh

SpecRun == InitRun /\ [][Next]_vars

\* One invocation of one or two series that may be interrupted at any await, up to
\* the handlers of __main__.
NextInterrupt ==
    \/ run_once_start
    \/ run_once_gather
    \/ run_once_raise
    \/ interrupt
    \/ main_except
    \/ \E s \in Series : SeriesStep(s)
    \/ \E s \in Series : \E i \in DOMAIN jobs[s] : JobStep(s, i)

SpecInterrupt == InitRun /\ [][NextInterrupt]_vars

\* MaxSeries configured series, more than one chunk; the first series of each chunk
\* of three has a feed of at most one entry, the feeds of the others are empty. No
\* rule has an airtime, or the first only, or all have: Thursday 23:30, which is
\* outside its windows at the instants of the invocations.
ChunkAirtime == [kind |-> "datetime", day |-> 19782, tod |-> 84600]

ChunkConfigs ==
    {[s \in Series |-> SeriesSeason(1)],
     [s \in Series |-> IF s = 1 THEN [SeriesSeason(1) EXCEPT !.airtime = ChunkAirtime]
                       ELSE SeriesSeason(1)],
     [s \in Series |-> [SeriesSeason(1) EXCEPT !.airtime = ChunkAirtime]]}

InitChunk ==
    /\ config \in ChunkConfigs
    /\ skip_start_check = FALSE
    /\ PlainRun
    /\ rss \in [Series -> {<<>>, <<[season |-> None, episode |-> 1]>>}]
    /\ \A s \in Series : s % chunk_size # 1 => rss[s] = <<>>
    /\ ledger = [s \in Series |-> <<>>]
    /\ inv = 1
    /\ Fresh

SpecChunk == InitChunk /\ [][Next]_vars

\* Two configured series whose config file gives ids: "a b" and "a_b", or "a b" and
\* "b"; each feed has at most one entry, of a different episode.
RawIds == {<< <<"a", " ", "b">>, <<"a", "_", "b">> >>, << <<"a", " ", "b">>, <<"b">> >>}

InitShared ==
    /\ \E ids \in RawIds :
          config = [s \in 1..2 |-> [id |-> _safe_clean_id(ids[s])] @@ SeriesSeason(1)]
    /\ skip_start_check = FALSE
    /\ PlainRun
    /\ \E f \in [1..2 -> BOOLEAN] :
          rss = [s \in Series |-> IF s <= 2 /\ f[s]
                                  THEN <<[season |-> None, episode |-> s]>> ELSE <<>>]
    /\ ledger = [s \in Series |-> <<>>]
    /\ inv = 1
    /\ Fresh

SpecShared == InitShared /\ [][Next]_vars

\* Two configured series, the first with a feed of one entry, the second with an
\* empty feed; a rule has no airtime, or
\* airs on Monday 00:30 or on Thursday 23:30; the first invocation is on Sunday
\* 2024-02-25, Monday 2024-02-26 or Thursday 2024-02-29 at 00:00, with or without
\* the -stc flag.
GateAirtimes ==
    {NoAirtime,
     [kind |-> "datetime", day |-> 19779, tod |-> 1800],
     [kind |-> "datetime", day |-> 19782, tod |-> 84600]}

GateInstants == {StartOfRun - DaySeconds, StartOfRun, StartOfRun + 3 * DaySeconds}

InitGate ==
    /\ \E a \in [RunSizes -> GateAirtimes] :
          config = [s \in RunSizes |-> [SeriesSeason(1) EXCEPT !.airtime = a[s]]]
    /\ \E t \in GateInstants : now = [first |-> t, last |-> t]
    /\ skip_time_check \in BOOLEAN
    /\ skip_start_check = FALSE
    /\ NoCall
    /\ rss = [s \in Series |->
                IF s = 1 THEN <<[season |-> None, episode |-> 1]>> ELSE <<>>]
    /\ ledger = [s \in Series |-> <<>>]
    /\ inv = 1
    /\ Fresh

SpecGate == InitGate /\ [][Next]_vars

\* ---------------------------------------------- should_check, called alone
\* Rules' airtimes: Monday 2024-02-26 00:30, Thursday 2024-02-29 23:30, the date
\* Wednesday 2024-02-28, Monday 2023-02-27 00:30 and Thursday 2023-03-02 23:30
\* (values of the year before), none.
Airtimes ==
    {[kind |-> "datetime", day |-> 19779, tod |-> 1800],
     [kind |-> "datetime", day |-> 19782, tod |-> 84600],
     [kind |-> "date",     day |-> 19781, tod |-> 0],
     [kind |-> "datetime", day |-> 19415, tod |-> 1800],
     [kind |-> "datetime", day |-> 19418, tod |-> 84600],
     NoAirtime}

Graces == {1, DefaultGrace}

\* The instant of a rule's airtime (weekday, time of day) in the week of StartOfRun.
week_occurrence(airtime) ==
    (date_of(StartOfRun) + weekday(airtime.day)) * DaySeconds + airtime.tod

\* Current times: every 6 hours from Saturday 2024-02-24 to Friday 2024-03-08, and
\* the ends of the grace windows of three weeks, one second before, at, and after.
Instants ==
    {(19777 * 4 + q) * (DaySeconds \div 4) : q \in 0..55}
    \cup {week_occurrence(a) + k * WeekDays * DaySeconds + sgn * g * MinuteSeconds + e :
            a \in Airtimes \ {NoAirtime}, k \in {-1, 0, 1}, sgn \in {-1, 1},
            g \in Graces, e \in {-1, 0, 1}}

\* Seconds between the first and the last reading of the clock in one call.
Lags == {0, 1}

GateRules ==
    {[SeriesSeason(1) EXCEPT !.airtime = a, !.grace_period = g] :
        a \in Airtimes, g \in Graces}

InitCheck ==
    /\ \E r \in GateRules : config = <<r>>
    /\ \E t \in Instants, lag \in Lags : now = [first |-> t, last |-> t + lag]
    /\ skip_start_check = FALSE
    /\ skip_time_check = FALSE
    /\ NoCall
    /\ rss = [s \in Series |-> <<>>]
    /\ ledger = [s \in Series |-> <<>>]
    /\ inv = 1
    /\ Fresh

\* should_check(series): "True", "False", or the ValueError it raises
should_check_result(series, t_first, t_last) ==
    IF should_check_raises(series, t_first) THEN "ValueError"
    ELSE IF should_check(series, t_first, t_last) THEN "True"
    ELSE "False"

should_check_call ==
    /\ checked = NoneStr
    /\ checked' = should_check_result(config[1], now.first, now.last)
    /\ UNCHANGED <<config, skip_start_check, skip_time_check, now, feed_info,
                   match_series, rss, ledger, inv, rpc, chunk, spc, serr,
                   series_feeds, downloaded_episodes, jobs, arcnseries, nmissing,
                   _GLOBAL_TASKS, cancel_requests, lock_file, main>>

NextCheck == should_check_call

SpecCheck == InitCheck /\ [][NextCheck]_vars

\* ------------------------------------------------ the matcher, called alone
Titles(n) == UNION {[1..k -> Chars] : k \in 0..n}

\* Feeds of one entry with a title of at most 4 characters, and feeds of two
\* entries with titles of at most 2 characters.
MatchFeeds == {<<a>> : a \in Titles(4)} \cup {<<a, b>> : a, b \in Titles(2)}

Patterns == {"episode", "season_episode", "episode_word"}

MatchLists == {<<>>, << <<"x">> >>, << <<"x">>, <<"X", "1">> >>}

IgnoreLists == {<<>>, << <<"s">> >>, << <<"E", "2">> >>}

MatchRules ==
    {[SeriesSeason(1) EXCEPT !.episode_regex = p, !.matches = m, !.ignore_matches = i] :
        p \in Patterns, m \in MatchLists, i \in IgnoreLists}

InitMatch ==
    /\ \E r \in MatchRules : config = <<r>>
    /\ feed_info \in MatchFeeds
    /\ match_series = [idx |-> 1, out |-> <<>>, last |-> NoneStr]
    /\ checked = NoneStr
    /\ nmissing = 0
    /\ NoLock
    /\ skip_start_check = FALSE
    /\ skip_time_check = FALSE
    /\ now = [first |-> StartOfRun, last |-> StartOfRun]
    /\ rss = [s \in Series |-> <<>>]
    /\ ledger = [s \in Series |-> <<>>]
    /\ inv = 1
    /\ Fresh

\* One iteration of `for entry in feed_info.entries`; a ValueError ends the loop.
process_entry ==
    /\ match_series.idx \in DOMAIN feed_info
    /\ match_series.last # "ValueError"
    /\ LET title   == feed_info[match_series.idx]
           outcome == entry_outcome(title, config[1])
       IN  match_series' =
               [idx  |-> match_series.idx + 1,
                out  |-> IF outcome = "append"
                         THEN Append(match_series.out, tor_info_of(title, config[1]))
                         ELSE match_series.out,
                last |-> outcome]
    /\ UNCHANGED <<config, skip_start_check, skip_time_check, now, checked, feed_info,
                   rss, ledger, inv, rpc, chunk, spc, serr,
                   series_feeds, downloaded_episodes, jobs, arcnseries, nmissing,
                   _GLOBAL_TASKS, cancel_requests, lock_file, main>>

NextMatch == process_entry

SpecMatch == InitMatch /\ [][NextMatch]_vars

\* ------------------------------------------- __main__, processes side by side
\* MaxProcs processes of the program are started, at any time one after or beside
\* another (the scheduler does not wait for a run to end); a lock file may have
\* been left by a process that was killed. The run of a process, asyncio.run of
\* run_once, is one step in and one step out.
MaxProcs == 3

Procs == 1..MaxProcs

NewMain == [pc |-> "exists", saw_lock |-> FALSE, unlinked |-> FALSE]

InitLock ==
    /\ lock_file \in BOOLEAN
    /\ main = [p \in Procs |-> NewMain]
    /\ config = <<SeriesSeason(1)>>
    /\ skip_start_check = FALSE
    /\ skip_time_check = FALSE
    /\ now = [first |-> StartOfRun, last |-> StartOfRun]
    /\ checked = NoneStr /\ feed_info = <<>> /\ match_series = NoMatch /\ nmissing = 0
    /\ rss = [s \in Series |-> <<>>]
    /\ ledger = [s \in Series |-> <<>>]
    /\ inv = 1
    /\ Fresh

LockFrame ==
    UNCHANGED <<config, skip_start_check, skip_time_check, rss, checked, feed_info,
                match_series, nmissing, now, ledger, inv, rpc, chunk, spc, serr,
                series_feeds, downloaded_episodes, jobs, arcnseries, _GLOBAL_TASKS,
                cancel_requests>>

\* `if LOCK_FILE.exists(): logger.warning("Lock file exists, exiting")`: the branch
\* logs and falls through to the touch.
exits(saw_lock) == FALSE

lock_exists(p) ==
    /\ main[p].pc = "exists"
    /\ main' = [main EXCEPT ![p].saw_lock = lock_file,
                            ![p].pc = IF exits(lock_file) THEN "exited" ELSE "touch"]
    /\ UNCHANGED lock_file
    /\ LockFrame

\* LOCK_FILE.touch()
lock_touch(p) ==
    /\ main[p].pc = "touch"
    /\ lock_file' = TRUE
    /\ main' = [main EXCEPT ![p].pc = "asyncio.run"]
    /\ LockFrame

\* asyncio.run(run_once(...)) starts
asyncio_run(p) ==
    /\ main[p].pc = "asyncio.run"
    /\ main' = [main EXCEPT ![p].pc = "run_once"]
    /\ UNCHANGED lock_file
    /\ LockFrame

\* asyncio.run(run_once(...)) returns or raises; either way `finally` is next
asyncio_run_ends(p) ==
    /\ main[p].pc = "run_once"
    /\ main' = [main EXCEPT ![p].pc = "finally"]
    /\ UNCHANGED lock_file
    /\ LockFrame

\* LOCK_FILE.unlink(missing_ok=True)
lock_unlink(p) ==
    /\ main[p].pc = "finally"
    /\ lock_file' = FALSE
    /\ main' = [main EXCEPT ![p].pc = "exited", ![p].unlinked = TRUE]
    /\ LockFrame

NextLock ==
    \E p \in Procs :
        \/ lock_exists(p)
        \/ lock_touch(p)
        \/ asyncio_run(p)
        \/ asyncio_run_ends(p)
        \/ lock_unlink(p)

SpecLock == InitLock /\ [][NextLock]_vars

\* ---------------------------------- add_and_wait, with its missing polls counted
\* One invocation for one series whose feed has one new entry; the polls that find
\* the job missing are counted, MaxMissing of them at most.
MaxMissing == 7

InitPoll ==
    /\ config = <<SeriesSeason(1)>>
    /\ skip_start_check = FALSE
    /\ PlainRun
    /\ rss = [s \in Series |-> IF s = 1 THEN <<[season |-> None, episode |-> 1]>> ELSE <<>>]
    /\ ledger = [s \in Series |-> <<>>]
    /\ inv = 1
    /\ Fresh

_list_torrents_counted(s, i, tor_info) ==
    /\ poll(s, i, tor_info)
    /\ IF tor_info = NoneInfo
       THEN nmissing < MaxMissing /\ nmissing' = nmissing + 1
       ELSE UNCHANGED nmissing
    /\ UNCHANGED <<config, skip_start_check, skip_time_check, rss, checked, feed_info,
                   match_series, now, ledger, inv, rpc, chunk, spc, serr, series_feeds,
                   downloaded_episodes, arcnseries, _GLOBAL_TASKS, cancel_requests,
                   lock_file, main>>

NextPoll ==
    \/ run_once_start
    \/ run_once_gather
    \/ run_once_raise
    \/ \E s \in Series : SeriesStep(s)
    \/ \E s \in Series : \E i \in DOMAIN jobs[s] : ClientStep(s, i)
    \/ \E s \in Series : \E i \in DOMAIN jobs[s] :
          \E tor_info \in TorInfos \cup {NoneInfo} : _list_torrents_counted(s, i, tor_info)

SpecPoll == InitPoll /\ [][NextPoll]_vars

\* ------------------------------------------------------------------ claims
AllJobs == UNION {{<<s, i>> : i \in DOMAIN jobs[s]} : s \in Series}

Job(j) == jobs[j[1]][j[2]]

\* add_and_wait has returned to _wrapped_downloader_and_move
AddAndWaitReturned(job) == job.pc \in {"mkdir", "rename"} \/ job.moved

\* C1: a job the client does not list on up to 5 consecutive polls is still
\* polling; one not listed on exactly 5 consecutive polls and complete on the next
\* leaves the loop on the completion path (never as disappeared or errored); a job
\* fails as "disappeared" exactly when 6 consecutive polls did not list it, at that
\* 6th poll, and no poll follows (a further poll would change the count of 6).
C1_MissingBudget ==
    \A j \in AllJobs :
        /\ Job(j).pc = "_list_torrents" => Job(j).trail <= 5 /\ Job(j).error = NoError
        /\ Job(j).error = E_Disappeared <=> Job(j).trail = 6
        /\ Job(j).error = E_Disappeared => Job(j).pc = "returned" /\ ~Job(j).result.res
        /\ Job(j).graced =>
              /\ Job(j).tor_info.state = "uploading"
              /\ Job(j).pc \in {"torrents_files", "torrents_delete", "mkdir", "rename",
                                "returned", "raised"}
              /\ Job(j).error \notin {E_Disappeared, E_Errored}

\* 5 polls without the job, then complete: add_and_wait has returned its result
C1_Witness ==
    \E j \in AllJobs : Job(j).graced /\ Job(j).pc = "mkdir" /\ Job(j).ndelete = 1

C2_ErroredState ==
    \A j \in AllJobs :
        Job(j).tor_info.state = "error" =>
            /\ Job(j).pc = "returned"
            /\ Job(j).error = E_Errored
            /\ Job(j).result = [svpath |-> NonePath, res |-> FALSE]
            /\ Job(j).nadd = 1
            /\ Job(j).ndelete = 0

C2_ErroredFrozen ==
    \A j \in AllJobs :
        Job(j).tor_info.state = "error" =>
            \/ jobs'[j[1]] = <<>>
            \/ jobs'[j[1]][j[2]] = Job(j)

\* C2: the first poll that reports the job errored ends the job in failure: the
\* job's task has returned (torrent, None, False) with the "errored" error, one
\* add and no delete were issued, and from then on nothing of the job changes (no
\* poll, no add, no delete) until the invocation is over.
C2_ErroredIsTerminal == [](C2_ErroredState) /\ [][C2_ErroredFrozen]_vars

C2_Witness ==
    \E j \in AllJobs : Job(j).error = E_Errored /\ spc[j[1]] = "save_arcnciel_data"

\* C3: the delete-job call is issued at most once per job, only after a poll has
\* reported the job complete and the payload file name has been queried; a job
\* whose add_and_wait returned issued it exactly once, got the path made of the
\* save directory of that poll and of that file name, and is not in the polling
\* loop any more.
C3_DeleteOnceAfterComplete ==
    \A j \in AllJobs :
        /\ Job(j).ndelete <= 1
        /\ Job(j).ndelete = 1 =>
              /\ Job(j).tor_info.state = "uploading"
              /\ Job(j).tor_file \in FileNames
              /\ Job(j).temporary_dl_dir = <<Job(j).tor_info.save_path, Job(j).tor_file>>
              /\ Job(j).pc \in {"mkdir", "rename", "returned", "raised"}
        /\ AddAndWaitReturned(Job(j)) => Job(j).ndelete = 1
        /\ Job(j).result.res =>
              Job(j).result.svpath = <<Job(j).tor_info.save_path, Job(j).tor_file>>

C3_Witness ==
    \E j \in AllJobs :
        /\ Job(j).result.res
        /\ Job(j).ndelete = 1
        /\ Job(j).result.svpath = <<"/tmp/x", "show.mkv">>

\* the failures a job can meet, whatever their class
JobFailed(job) == job.pc = "returned" /\ ~job.result.res

C4_State ==
    /\ \A j \in AllJobs : Job(j).pc = "raised" => rpc = "raised" /\ Job(j).error = E_Cancelled
    /\ \A j \in AllJobs : Job(j).error \notin {NoError, E_Cancelled} => JobFailed(Job(j))
    /\ \A s \in Series : spc[s] = "raised" =>
           serr[s] \in {"ArcNCielFeedMissing", "ArcNCielFeedInvalid", "LedgerLoadError"}
    /\ \A s \in Series : spc[s] \in {"get_arcnciel_data", "save_arcnciel_data"} =>
           \A i \in DOMAIN jobs[s] : jobs[s][i].pc = "returned"

C4_Step ==
    \A j \in AllJobs :
       /\ (Job(j).error = NoError /\ jobs'[j[1]] # <<>> /\ jobs'[j[1]][j[2]].error # NoError
           /\ rpc' = rpc) =>
             /\ \A k \in AllJobs : k # j => jobs'[k[1]][k[2]] = Job(k)
             /\ spc' = spc
             /\ ledger' = ledger
       /\ (spc[j[1]] = "gather" /\ spc'[j[1]] # "gather" /\ rpc' = rpc) =>
             spc'[j[1]] = "get_arcnciel_data"

\* C4: a failure of a job stays in that job. The task of a failed job returns
\* its (torrent, None, False); no job task ends with an exception or cancelled
\* unless run_once itself ended with an exception, and a _run_feed task ends with
\* an exception only for its feed or its ledger store, never for a job; the step
\* in which a job fails changes nothing of its siblings, of the series task or
\* of run_once; and _run_feed leaves its gather only into the ledger commit.
C4_JobFailureIsLocal == [](C4_State) /\ [][C4_Step]_vars

\* one job failed with a fault that is no torrent error, its sibling moved its
\* file, and the series is at its ledger commit
C4_Witness ==
    \E s \in Series :
        /\ spc[s] = "save_arcnciel_data"
        /\ \E i, k \in DOMAIN jobs[s] :
              /\ jobs[s][i].error \in {E_OS, E_Index}
              /\ jobs[s][k].moved

C5_Step ==
    \A s \in Series :
        /\ Len(ledger'[s]) >= Len(ledger[s])
        /\ SubSeq(ledger'[s], 1, Len(ledger[s])) = ledger[s]
        /\ \A n \in (Len(ledger[s]) + 1)..Len(ledger'[s]) :
              \E i \in DOMAIN jobs[s] :
                  /\ ledger'[s][n] = [season  |-> jobs[s][i].torrent.season,
                                      episode |-> jobs[s][i].torrent.episode]
                  /\ jobs[s][i].tor_info.state = "uploading"
                  /\ jobs[s][i].moved
        /\ ledger'[s] # ledger[s] =>
              Len(ledger'[s]) - Len(ledger[s]) =
                  Cardinality({i \in DOMAIN jobs[s] : jobs[s][i].moved})

C5_State ==
    \A j \in AllJobs :
        /\ Job(j).moved => Job(j).tor_info.state = "uploading" /\ Job(j).ndelete = 1
        /\ Job(j).error = E_OS => ~Job(j).moved /\ ~Job(j).result.res

\* C5: the ledger of a series only grows by appending, and every pair appended
\* is the (season, episode) of a job of that series whose poll found the download
\* complete and whose rename to the destination was done; a job that failed at
\* mkdir or rename is not appended by its failure.
C5_RecordedOnlyIfMoved == [](C5_State) /\ [][C5_Step]_vars

\* a download completed, the handoff failed, the series committed, and the
\* episode is not in the ledger
C5_Witness ==
    \E j \in AllJobs :
        /\ Job(j).error = E_OS
        /\ Job(j).tor_info.state = "uploading"
        /\ spc[j[1]] = "returned"
        /\ Len(jobs[j[1]]) = 2
        /\ Len(ledger[j[1]]) = 1
        /\ [season |-> Job(j).torrent.season, episode |-> Job(j).torrent.episode]
               \notin Range(ledger[j[1]])

\* C6: when the invocation is over, every job that moved its file has its
\* (season, episode) in the persisted ledger of its series, whatever happened to
\* other jobs and other series (a failure of the ledger store of the job's own
\* series set aside).
C6_SuccessIsCommitted ==
    rpc \in {"returned", "raised"} =>
        \A j \in AllJobs :
            (Job(j).moved /\ spc[j[1]] # "raised") =>
                [season |-> Job(j).torrent.season, episode |-> Job(j).torrent.episode]
                    \in Range(ledger[j[1]])

C7_State ==
    \A s \in Series :
        spc[s] \in {"get_arcnciel_data", "save_arcnciel_data"} =>
            /\ jobs[s] # <<>>
            /\ \A i \in DOMAIN jobs[s] : jobs[s][i].pc \in {"returned", "raised"}

C7_Step ==
    \A s \in Series :
        (ledger'[s] # ledger[s] \/ arcnseries'[s] # arcnseries[s]
         \/ (spc[s] = "gather" /\ spc'[s] = "get_arcnciel_data")) =>
            \/ \A i \in DOMAIN jobs[s] : jobs[s][i].pc \in {"returned", "raised"}

\* C7: the ledger of a series is loaded for update, changed in memory and
\* written only when every job of the series has ended; no write happens while
\* a job is fetching, adding, polling or moving.
C7_CommitAfterAllJobs == [](C7_State) /\ [][C7_Step]_vars

C7_Witness ==
    \E s \in Series :
        /\ spc[s] = "returned"
        /\ Len(jobs[s]) = 2
        /\ Len(ledger[s]) = 2

\* C8: a series step that found, when it read the ledger, the episode of every
\* matched entry in the set of the entry's season has created no job (so no add
\* call is made) and has returned without going to the ledger commit.
C8_AllRecordedNoJobs ==
    \A s \in Series :
        (/\ spc[s] \in {"gather", "get_arcnciel_data", "save_arcnciel_data", "returned"}
         /\ series_feeds[s] # <<>>
         /\ \A n \in DOMAIN series_feeds[s] :
               series_feeds[s][n].episode \in
                   dict_get(downloaded_episodes[s], str(series_feeds[s][n].season)))
        => jobs[s] = <<>> /\ spc[s] = "returned"

\* C9: a candidate passes the dedup filter iff its episode is not in the set the
\* ledger mapping has for the candidate's resolved season.
C9_FilterByResolvedSeason ==
    \A s \in Series :
        spc[s] \notin {"idle", "process_series", "get_downloaded_series"} =>
            \A n \in DOMAIN series_feeds[s] :
                not_downloaded(series_feeds[s][n], config[s], downloaded_episodes[s])
                    <=> series_feeds[s][n].episode \notin
                            dict_get(downloaded_episodes[s], str(series_feeds[s][n].season))

\* C10: a ledger holds each (season, episode) pair at most once.
C10_NoDuplicatePair ==
    \A s \in Series :
        \A a, b \in DOMAIN ledger[s] : a # b => ledger[s][a] # ledger[s][b]

InFlight(s) == spc[s] \in {"process_series", "get_downloaded_series", "gather",
                           "get_arcnciel_data", "save_arcnciel_data"}

Finished(s) == spc[s] \in {"returned", "raised", "cancelled"}

\* C11: at most 3 series tasks are in flight at any time, and a series task of a
\* later batch (batch = the 3 consecutive selected series it is among) exists only
\* when every series task of every earlier batch has finished, successfully or not.
C11_BatchesAreSequential ==
    LET cs == configure_series
    IN  /\ Cardinality({s \in Series : InFlight(s)}) <= 3
        /\ \A a, b \in DOMAIN cs :
              ((a + 2) \div 3 < (b + 2) \div 3 /\ spc[cs[b]] # "idle")
                  => Finished(cs[a])

C11_Witness ==
    /\ Len(configure_series) > 3
    /\ InFlight(4)
    /\ \A s \in 1..3 : spc[s] = "returned"
    /\ \E i \in DOMAIN jobs[1] : jobs[1][i].moved
    /\ Len(ledger[1]) = 1

FeedErrors == {"ArcNCielFeedMissing", "ArcNCielFeedInvalid"}

Selected == Range(configure_series)

\* C12: when the invocation is over and the only failures of series were feed
\* failures (feed unreachable, feed unparseable), every other selected series has
\* been processed to the end of its step: its task returned, after its ledger
\* commit when it had jobs.
C12_FeedFailureConfined ==
    (/\ rpc \in {"returned", "raised"}
     /\ \A u \in Series : serr[u] \in FeedErrors \cup {NoneStr})
    => \A s \in Selected : serr[s] = NoneStr => spc[s] = "returned"

\* C13: when the invocation is over and the only failures of series were failures
\* to load their ledger, every other selected series has been matched, downloaded
\* and committed: its task returned.
C13_LedgerLoadFailureConfined ==
    (/\ rpc \in {"returned", "raised"}
     /\ \A u \in Series : serr[u] \in {"LedgerLoadError", NoneStr})
    => \A s \in Selected : serr[s] = NoneStr => spc[s] = "returned"

\* The series step went past its two filters and did not fail on the way.
Scheduled(s) == spc[s] \in {"gather", "get_arcnciel_data", "save_arcnciel_data", "returned"}

\* The candidates the jobs of a series were created for, in creation order.
JobTorrents(s) == [i \in DOMAIN jobs[s] |-> jobs[s][i].torrent]

PassesDedup(s, feed) == not_downloaded(feed, config[s], downloaded_episodes[s])

\* C14: in a run with the flag that bypasses the minimum-episode floor, the jobs of
\* a series are exactly its candidates that pass the dedup filter, those below the
\* series' minimum episode included.
C14_BypassLaunchesAll ==
    \A s \in Series :
        (skip_start_check /\ Scheduled(s)) =>
            JobTorrents(s) = SelectSeq(series_feeds[s], LAMBDA feed : PassesDedup(s, feed))

\* C15: in a run without the bypass flag, the jobs of a series are exactly its
\* candidates that pass the dedup filter and whose episode is at least the series'
\* minimum episode, one job each; no job is for an episode below the floor.
C15_FloorFilter ==
    \A s \in Series :
        (~skip_start_check /\ Scheduled(s)) =>
            /\ JobTorrents(s) =
                  SelectSeq(series_feeds[s], LAMBDA feed :
                      PassesDedup(s, feed) /\ feed.episode >= config[s].start_from)
            /\ \A i \in DOMAIN jobs[s] :
                  jobs[s][i].torrent.episode >= config[s].start_from

C15_Witness ==
    \E s \in Series :
        /\ ~skip_start_check
        /\ spc[s] = "returned"
        /\ config[s].start_from = 2
        /\ Len(series_feeds[s]) = 2
        /\ series_feeds[s][1].episode = 1 /\ PassesDedup(s, series_feeds[s][1])
        /\ Len(jobs[s]) = 1
        /\ jobs[s][1].torrent.episode = 2
        /\ jobs[s][1].moved

\* C17: a call of should_check for a rule with no airtime returns true, whatever
\* the current time.
C17_NoAirtimeAlwaysChecked ==
    (config[1].airtime = NoAirtime /\ checked # NoneStr) => checked = "True"

C17_Witness ==
    /\ config[1].airtime = NoAirtime
    /\ checked = "True"
    /\ now.first = StartOfRun + DaySeconds \div 4
    /\ now.last = now.first + 1

\* The occurrence of the rule's weekday and time of day on the current day or one
\* of the 6 days after it.
next_occurrence(series, t) ==
    (date_of(t) + ((weekday(series.airtime.day) - weekday(date_of(t)) + 7) % 7)) * DaySeconds
        + series.airtime.tod

InGrace(series, T, t) ==
    /\ T - series.grace_period * 60 <= t
    /\ t <= T + series.grace_period * 60

\* A call for a rule with an airtime that read the clock at one instant.
CheckedAt(t) ==
    /\ checked # NoneStr
    /\ config[1].airtime # NoAirtime
    /\ now.first = t /\ now.last = t

\* C18: for T the current-week occurrence of the airtime, and for T the occurrence
\* one week earlier, should_check is true at T-G and at T+G, and false one second
\* before T-G and one second after T+G.
C18_GraceBoundaries ==
    \A t \in Instants : CheckedAt(t) =>
        \A T \in {next_occurrence(config[1], t), next_occurrence(config[1], t) - 7 * 86400} :
            LET G == config[1].grace_period * 60
            IN  /\ (t = T - G \/ t = T + G) => checked = "True"
                /\ (t = T - G - 1 \/ t = T + G + 1) => checked = "False"

\* C19: for a rule with an airtime, should_check returns true when the current time
\* is within the grace period of A, the occurrence of the airtime on the current day
\* or one of the 6 days after it, or of A minus 7 days; it returns false otherwise.
C19_WindowOrWeekEarlier ==
    \A t \in Instants : CheckedAt(t) =>
        LET A == next_occurrence(config[1], t)
        IN  IF InGrace(config[1], A, t) \/ InGrace(config[1], A - 7 * 86400, t)
            THEN checked = "True"
            ELSE checked = "False"

\* The series run_once has created a task for, in this invocation.
Started == {s \in Series : spc[s] # "idle"}

\* C16: with the flag that bypasses the Airtime Gate every configured series is
\* selected; without it a series is selected if and only if should_check returns
\* true for it. Seen on the tasks: only selected series ever get a task, and once
\* run_once is past its selection the selected series of the first batch have one.
C16_GateSelection ==
    LET sel == {s \in DOMAIN config :
                  skip_time_check \/ should_check(config[s], now.first, now.last)}
    IN  /\ Started \subseteq sel
        /\ rpc # "start" =>
              \A k \in DOMAIN configure_series_all :
                  (configure_series_all[k] \in sel
                   /\ Cardinality({j \in 1..k : configure_series_all[j] \in sel}) <= 3)
                  => configure_series_all[k] \in Started

C16_Witness ==
    /\ ~skip_time_check
    /\ rpc = "returned"
    /\ config[1].airtime # NoAirtime /\ config[2].airtime # NoAirtime
    /\ spc[2] = "idle"
    /\ spc[1] = "returned"
    /\ \E i \in DOMAIN jobs[1] : jobs[1][i].moved
    /\ inv = 2

C16_WitnessBypass ==
    /\ skip_time_check
    /\ rpc = "returned"
    /\ \A s \in DOMAIN config :
          /\ ~should_check(config[s], now.first, now.last)
          /\ spc[s] = "returned"
    /\ Len(ledger[1]) = 1

\* The entry the matcher has just handled, and the rule.
LastTitle == feed_info[match_series.idx - 1]

Handled == match_series.last # NoneStr

FailsPattern == ~search(config[1].episode_regex, LastTitle)

HasExclusion ==
    \E x \in Range(config[1].ignore_matches) :
        contains(casefold(LastTitle), casefold(x))

LacksInclusion ==
    \E m \in Range(config[1].matches) :
        ~contains(casefold(LastTitle), casefold(m))

CaptureNotNumeric ==
    /\ ~FailsPattern
    /\ LET g == groupdict(config[1].episode_regex, LastTitle)
       IN  g.episode \notin Digits \/ (g.season # NoneStr /\ g.season \notin Digits)

C21_NonNumericSkippedAlone ==
    (Handled /\ ~HasExclusion /\ ~LacksInclusion /\ CaptureNotNumeric) =>
        /\ match_series.last = "continue"
        /\ ENABLED process_entry \/ match_series.idx > Len(feed_info)

\* The answers to a descriptor request that fail the job.
FetchFailures == FetchResponses \ {"ok"}

\* C22: a non-success status, an unparsable descriptor and a descriptor with more
\* than one payload file each fail the job at once, before anything is added, and
\* the failures of two jobs that failed for different ones of the three causes differ.
C22_FetchFailuresDistinct ==
    /\ \A j \in AllJobs : Job(j).fetched \in FetchFailures =>
          /\ Job(j).pc = "returned"
          /\ ~Job(j).result.res
          /\ Job(j).nadd = 0
    /\ \A j, k \in AllJobs :
          (/\ Job(j).fetched \in FetchFailures
           /\ Job(k).fetched \in FetchFailures
           /\ Job(j).fetched # Job(k).fetched) => Job(j).error # Job(k).error

\* The ledger of the series holds the pair of a candidate.
Recorded(s, feed) == to_data_content(feed) \in Range(ledger[s])

\* C23: within an invocation the descriptor of a candidate is fetched at most once
\* and added at most once, and only after it was fetched; in the next invocation,
\* once the series step has created its jobs, an entry the ledger does not hold (its
\* job failed) has a job again, which starts at the fetch, and an entry the ledger
\* holds has none.
C23_OneAttemptPerInvocation ==
    /\ \A j \in AllJobs : Job(j).nadd <= Job(j).nfetch /\ Job(j).nfetch <= 1
    /\ \A s \in Series :
          (inv > 1 /\ spc[s] = "gather" /\ ~skip_start_check) =>
              \A n \in DOMAIN series_feeds[s] :
                  LET feed == series_feeds[s][n]
                      attempted == \E i \in DOMAIN jobs[s] : jobs[s][i].torrent = feed
                  IN  /\ Recorded(s, feed) => ~attempted
                      /\ (~Recorded(s, feed) /\ feed.episode >= config[s].start_from)
                            => attempted

Polling(job) == job.pc = "_list_torrents"

\* What a poll step did to a job that was polling: the job left Polling on a poll
\* that found it complete, on one that found it errored, or on the sixth
\* consecutive one that found it missing; otherwise it is polling still, and a poll
\* that found it listed and neither complete nor errored left no count behind.
C24_Step ==
    inv' = inv =>
        \A j \in AllJobs :
            LET a == Job(j)
                b == jobs'[j[1]][j[2]]
            IN  (Polling(a) /\ b # a) =>
                  /\ ~Polling(b) =>
                        \/ b.tor_info.state = "uploading" /\ b.pc = "torrents_files"
                        \/ b.tor_info.state = "error" /\ b.pc = "returned"
                              /\ b.error = E_Errored
                        \/ b.tor_info = NoneInfo /\ b.pc = "returned"
                              /\ a.trail = 5 /\ b.trail = 6 /\ b.error = E_Disappeared
                  /\ b.tor_info.state = "downloading" =>
                        Polling(b) /\ b.missing_failure = 0 /\ b.trail = 0

\* A polling job can always be polled again and be found listed, not complete.
C24_State ==
    \A j \in AllJobs :
        Polling(Job(j)) =>
            ENABLED _list_torrents(j[1], j[2], [state |-> "downloading", save_path |-> "/tmp/x"])

C25_Step ==
    \A j \in AllJobs :
        LET a == Job(j)
            b == jobs'[j[1]][j[2]]
        IN  Polling(a) =>
              /\ nmissing' = nmissing + 1 => b.missing_failure = a.missing_failure + 1
              /\ (b # a /\ b.tor_info # NoneInfo) => b.missing_failure = 0

C25_State ==
    \A j \in AllJobs :
        /\ Job(j).missing_failure \in 0..6
        /\ Job(j).missing_failure <= nmissing
        /\ Job(j).missing_failure = 6 <=> Job(j).error = E_Disappeared

\* C25: the missing-poll counter counts consecutive missing polls only: a poll that
\* finds the job listed sets it to zero, a poll that finds it missing adds one; it
\* is always between 0 and 6, and it is 6 exactly when the job has failed as
\* disappeared, however many polls found the job missing in total.
C25_ConsecutiveMissingOnly == [][C25_Step]_vars /\ []C25_State

C25_Witness ==
    \E j \in AllJobs :
        /\ nmissing > 5
        /\ Job(j).moved
        /\ Job(j).missing_failure = 0

\* The stages of a job, in the order of the code.
Stage(job) ==
    CASE job.pc = "download_torrent" -> 1
      [] job.pc = "_add_torrent"     -> 2
      [] job.pc = "_list_torrents"   -> 3
      [] job.pc = "torrents_files"   -> 4
      [] job.pc = "torrents_delete"  -> 5
      [] job.pc = "mkdir"            -> 6
      [] job.pc = "rename"           -> 7
      [] OTHER                       -> 8

AddRejections == AddResponses \ {"Ok."}

\* Within an invocation a job never goes back to an earlier stage and never leaves
\* its end; the step that rejects a job's add changes no other job and not the
\* series task; what a commit adds to the ledger is one entry per moved job.
C26_Step ==
    inv' = inv =>
        /\ \A j \in AllJobs :
              LET a == Job(j)
                  b == jobs'[j[1]][j[2]]
              IN  /\ Stage(b) >= Stage(a)
                  /\ Stage(a) = 8 => b = a
                  /\ (b.added \in AddRejections /\ a.added = NoneStr) =>
                        /\ \A k \in AllJobs \ {j} : jobs'[k[1]][k[2]] = Job(k)
                        /\ spc' = spc /\ ledger' = ledger
        /\ \A s \in Series :
              ledger'[s] # ledger[s] =>
                  Len(ledger'[s]) = Len(ledger[s])
                      + Cardinality({i \in DOMAIN jobs[s] : jobs[s][i].moved})

\* A job whose fetch failed was never added; a job whose add was rejected was never
\* polled nor deleted, and has no result to record.
C26_State ==
    \A j \in AllJobs :
        LET job == Job(j)
        IN  /\ job.fetched \in FetchFailures =>
                  job.pc = "returned" /\ job.nadd = 0 /\ job.added = NoneStr
            /\ job.added \in AddRejections =>
                  /\ job.pc = "returned"
                  /\ job.tor_info = NoneInfo /\ job.trail = 0
                  /\ job.ndelete = 0
                  /\ ~job.moved /\ ~job.result.res

\* C26: the stages of a job only go forward: when the fetch fails the add is never
\* called; when the add is rejected (unsupported format or a reply that is not ok)
\* the job fails with no poll and no delete and gets no ledger entry, and the other
\* jobs of the series go on.
C26_StagesOnlyForward == [][C26_Step]_vars /\ []C26_State

C26_Witness ==
    \E s \in Series :
        /\ spc[s] = "returned"
        /\ Len(jobs[s]) = 2
        /\ jobs[s][1].added = "415"
        /\ jobs[s][2].moved
        /\ ledger[s] = <<to_data_content(jobs[s][2].torrent)>>

\* A job of the series is for the candidate.
Attempted(s, feed) == \E i \in DOMAIN jobs[s] : jobs[s][i].torrent = feed

\* C27, as the claim states it: a candidate whose resolved season the ledger mapping
\* lacks is looked up under the series' default season, so when its episode is
\* recorded under the default season it is treated as acquired: it gets no job.
C27_FallbackWhenSeasonAbsent ==
    \A s \in Series :
        Scheduled(s) =>
            \A n \in DOMAIN series_feeds[s] :
                LET feed == series_feeds[s][n]
                IN  (/\ str(feed.season) \notin DOMAIN downloaded_episodes[s]
                     /\ feed.episode \in
                            dict_get(downloaded_episodes[s], str(config[s].season)))
                    => ~Attempted(s, feed)

\* C27, amended: the lookup key is the series' default season exactly when the
\* candidate's resolved season is 0, and the candidate's own resolved season
\* otherwise, whether or not the mapping has it; without the bypass flag a candidate
\* gets a job iff its episode is not in the set of that key and is at least the
\* series' minimum episode.
C27_FallbackWhenSeasonZero ==
    \A s \in Series :
        (Scheduled(s) /\ ~skip_start_check) =>
            \A n \in DOMAIN series_feeds[s] :
                LET feed == series_feeds[s][n]
                    key  == IF feed.season = 0 THEN config[s].season ELSE feed.season
                IN  Attempted(s, feed) <=>
                        /\ feed.episode \notin dict_get(downloaded_episodes[s], str(key))
                        /\ feed.episode >= config[s].start_from

C27_Witness ==
    \E s \in Series :
        /\ inv = 2 /\ Scheduled(s) /\ ~skip_start_check
        /\ \E n \in DOMAIN series_feeds[s] :
              /\ series_feeds[s][n] = [season |-> 0, episode |-> 1]
              /\ ~Attempted(s, series_feeds[s][n])
        /\ config[s].start_from = 1
        /\ "0" \notin DOMAIN downloaded_episodes[s]
        /\ 1 \in dict_get(downloaded_episodes[s], "1")

\* The series a step of run_once starts a task for.
StartedNow == {s \in Series : spc[s] = "idle" /\ spc'[s] # "idle"}

\* Within an invocation a series task is started from idle only, so once; the
\* series started together are selected ones, exactly 3 of them unless no selected
\* series is left idle after them, and every selected series still idle comes after
\* them in the configured order.
C28_Step ==
    inv' = inv =>
        /\ \A s \in Series :
              (spc'[s] = "process_series" /\ spc[s] # "process_series") => spc[s] = "idle"
        /\ StartedNow # {} =>
              /\ StartedNow \subseteq Selected
              /\ Cardinality(StartedNow) \in 1..3
              /\ Cardinality(StartedNow) < 3 => \A t \in Selected : spc'[t] # "idle"
              /\ \A s \in StartedNow : \A t \in Selected : spc'[t] = "idle" => s < t

\* The tasks that exist are those of the selected series of the batches up to the
\* current one, a batch being three consecutive selected series; a series that is
\* not selected has no task and no job, so none exists when none is selected; a run
\* that returned has started every selected series.
C28_State ==
    LET cs == configure_series
    IN  /\ \A k \in DOMAIN cs : spc[cs[k]] # "idle" <=> (k + 2) \div 3 <= chunk
        /\ \A s \in Series \ Selected : spc[s] = "idle" /\ jobs[s] = <<>>
        /\ rpc = "returned" => chunk = (Len(cs) + 2) \div 3

\* C28: run_once partitions the selected series into batches: every selected series
\* is started exactly once, in one batch; the batches follow the configured order;
\* every batch but the last has exactly 3 series and the last has 1 to 3; when no
\* series is selected no series task and no job is created.
C28_BatchesPartitionSelected == [][C28_Step]_vars /\ []C28_State

C28_Witness ==
    /\ rpc = "returned"
    /\ chunk = 2
    /\ Len(configure_series) > 3
    /\ \A s \in Selected : spc[s] = "returned"

C28_WitnessNone ==
    /\ rpc = "returned"
    /\ Selected = {}
    /\ chunk = 0

\* C29: the result of should_check is a function of the rule and of the instant at
\* which the call starts: it is the result of every call for the same rule that
\* starts at that instant, however long after it the later readings of the clock
\* come.
C29_SameStartSameResult ==
    checked # NoneStr =>
        \A lag \in Lags :
            checked = should_check_result(config[1], now.first, now.first + lag)

\* C30: no two series tasks of an invocation are at once between reading a ledger
\* for the commit and saving it with the same ledger file, whatever the ids of the
\* configured rules: a ledger has one writer at a time, the step of its own series.
C30_OneWriterPerLedger ==
    \A s, t \in DOMAIN config :
        (s # t /\ spc[s] = "save_arcnciel_data" /\ spc[t] = "save_arcnciel_data")
            => ledger_file(s) # ledger_file(t)

\* The update of a series is lost: both series have returned after a commit of one
\* moved job each, and the ledger they share holds one entry.
C30_LostUpdate ==
    /\ inv = 1
    /\ spc[1] = "returned" /\ spc[2] = "returned"
    /\ jobs[1] # <<>> /\ jobs[1][1].moved
    /\ jobs[2] # <<>> /\ jobs[2][1].moved
    /\ ledger_file(2) = 1
    /\ Len(ledger[1]) = 1

\* C32: the weekday delta is an integer from 0 to 6 for every pair of weekdays, so
\* the day should_check projects the airtime onto is the current day or one of the
\* 6 days after it, on the airtime's weekday, never a day before; a call that
\* returns true outside the grace period of the projected occurrence is within the
\* grace period of the occurrence 7 days before it.
C32_DeltaNeverBackward ==
    /\ \A week_air, week_ctime \in 0..6 :
          (week_air - week_ctime + 7) % 7 \in 0..6
    /\ (checked # NoneStr /\ config[1].airtime # NoAirtime) =>
          LET today == date_of(now.first)
              day   == projected_day(config[1], now.first)
          IN  /\ day \in today..(today + 6)
              /\ weekday(day) = weekday(config[1].airtime.day)
              /\ day - today = get_day_difference(weekday(config[1].airtime.day),
                                                  weekday(today))
              /\ (/\ checked = "True"
                  /\ ~InGrace(config[1], airtime_of(config[1], now.first), now.last)) =>
                    InGrace(config[1],
                            airtime_of(config[1], now.first) - 7 * 86400, now.last)

C32_Witness ==
    /\ checked = "True"
    /\ config[1].airtime # NoAirtime
    /\ projected_day(config[1], now.first) = date_of(now.first) + 6
    /\ ~InGrace(config[1], airtime_of(config[1], now.first), now.last)

\* The rule with its airtime value moved by 52 weeks: the same weekday and time of
\* day, a year later.
AYearLater(series) == [series EXCEPT !.airtime.day = @ + 52 * 7]

\* C33: the result of should_check does not depend on the calendar year of the
\* configured airtime value: a call for a rule whose airtime value lies in the year
\* before the current time returns what it returns for the same weekday and time
\* of day in the current year, and true whenever the current time is within the
\* grace period of this week's occurrence.
C33_YearIndependent ==
    (/\ checked # NoneStr
     /\ config[1].airtime # NoAirtime
     /\ civil_from_days(config[1].airtime.day).year
            < civil_from_days(date_of(now.first)).year) =>
        /\ checked = should_check_result(AYearLater(config[1]), now.first, now.last)
        /\ InGrace(config[1], next_occurrence(config[1], now.first), now.last)
              => checked = "True"

\* C34: within an invocation at most one job is launched per (series, season,
\* episode): no two jobs of a series are for candidates of the same season and
\* episode, whose artifacts would be moved to the same destination path.
C34_OneJobPerEpisode ==
    \A s \in Series :
        \A i, k \in DOMAIN jobs[s] :
            i # k =>
                \/ jobs[s][i].torrent.season # jobs[s][k].torrent.season
                \/ jobs[s][i].torrent.episode # jobs[s][k].torrent.episode

\* C35: a process that found the lock file when it started never runs the pipeline,
\* so no two processes are in run_once at once, and a process that removed the lock
\* file had not found it, so had created it.
C35_LockExcludes ==
    /\ \A p \in DOMAIN main :
          main[p].saw_lock => main[p].pc \notin {"asyncio.run", "run_once", "finally"}
    /\ \A p, q \in DOMAIN main :
          (main[p].pc = "run_once" /\ main[q].pc = "run_once") => p = q
    /\ \A p \in DOMAIN main : main[p].unlinked => ~main[p].saw_lock

\* The tasks that exist: those of the started series and of their jobs.
Created == {<<s, 0>> : s \in Started} \cup AllJobs

\* Whatever run_once raised or was interrupted by, the step that ends it calls
\* cancel() on every task that exists and has not finished.
C31_Step ==
    (rpc \in {"start", "gather"} /\ rpc' \in {"raised", "interrupted"}) =>
        \A task \in Created :
            (IF task[2] = 0 THEN InFlight(task[1])
             ELSE Job(task).pc \notin {"returned", "raised"})
                => task \in cancel_requests'

\* A task is in the global list as soon as it exists; once the run has ended with
\* an exception or an interruption no task is left that has neither finished nor
\* been asked to cancel; the handlers of __main__ ask every task of the list.
C31_State ==
    /\ Created \subseteq _GLOBAL_TASKS
    /\ rpc \in {"raised", "interrupted", "exited"} =>
          /\ \A s \in Started : Finished(s) /\ (spc[s] = "cancelled" => <<s, 0>> \in cancel_requests)
          /\ \A j \in AllJobs :
                /\ Job(j).pc \in {"returned", "raised"}
                /\ Job(j).error = E_Cancelled => j \in cancel_requests
    /\ rpc = "exited" => _GLOBAL_TASKS \subseteq cancel_requests

\* C31: on an interruption or an unhandled fault during the run, every series task
\* and every job task that was created and has not finished is requested to cancel:
\* each task is in the global task list from its creation, and no outstanding task
\* is left without a cancel request.
C31_OutstandingTasksCancelled == [][C31_Step]_vars /\ []C31_State

C31_Witness ==
    /\ rpc = "interrupted"
    /\ \E s \in Series :
          /\ spc[s] = "cancelled"
          /\ <<s, 0>> \in cancel_requests
          /\ \E i \in DOMAIN jobs[s] :
                /\ jobs[s][i].error = E_Cancelled
                /\ jobs[s][i].tor_info.state = "downloading"
                /\ <<s, i>> \in cancel_requests \cap _GLOBAL_TASKS

====
